---- MODULE Spec2Model ----
(***************************************************************************)
(* co2-canary: the wake cycle of src/main.rs (sensor acquisition, History  *)
(* append, calibration time update, display draw, deep sleep) and the      *)
(* graph scaling of src/display.rs.  History and the Sunrise sensor driver *)
(* live in history.rs and sunrise.rs; they are modelled from their         *)
(* documented contract.                                                    *)
(***************************************************************************)
EXTENDS Integers, Sequences, FiniteSets, TLC

\* ---------------------------------------------------------------- bounds
MaxCapacity == 5        \* History capacities 1..MaxCapacity are explored
ExtraInserts == 2       \* the History harness inserts up to capacity + ExtraInserts values
MaxCycles == 3          \* number of wake-ups (timer or power-on) after the first boot
MaxResets == 1          \* number of hard power-on resets
MaxUpdates == 4         \* the CalibrationData harness applies up to MaxUpdates deltas

\* ------------------------------------------------------- program constants
number_of_samples == 2
milliseconds_per_sample == 300
deep_sleep_secs == 0

\* ------------------------------------------------------------ input sets
Values == {0, 400, 410, 420, 450}     \* readings fed to the History harness
Ppm == {400, 450}                      \* ppm values a successful get_co2 returns
Celsius == {21}                        \* temperatures a successful get_temperature returns
ElapsedMs == {1, 2}                    \* rtc.time_since_boot().ticks() / 1000
Deltas == {0, 1, 2, 7}                 \* deltas fed to the CalibrationData harness
AuxStates == {0, 1}                    \* auxiliary calibration bookkeeping written by get_co2
SpiOutcomes == {"ok", "set_lut_err", "update_err"}

\* Option<T> is the set of at most one value.
None == {}
Some(x) == {x}

VARIABLES
    HISTORY,            \* #[ram(rtc_fast)] static mut HISTORY
    CALIBRATION_DATA,   \* #[ram(rtc_fast)] static mut CALIBRATION_DATA
    temperature,        \* local of main
    co2_sensor,         \* protocol state of the SunriseSensor instance
    pc,                 \* position of main
    panic,              \* cause of the panic that stopped main, "none" otherwise
    trace,              \* calls made since this wake-up, in order
    co2_result,         \* Option: the result get_co2 returned in this cycle
    elapsed,            \* Option: the delta passed to update_time_ms in this cycle
    waited,             \* milliseconds of light sleep performed in this cycle
    init_samples,       \* Option: the sample count passed to init in this cycle
    divisors,           \* divisors used by draw_graph in this cycle
    at_calls,           \* indices draw_graph passed to at() in this cycle
    drawn,              \* Option: the latest CO2 value draw showed in this cycle
    timer,              \* Option: the armed deep-sleep wake timer, in seconds
    histAtWake,         \* HISTORY as it was at this wake-up
    calAtWake,          \* CALIBRATION_DATA as it was at this wake-up
    cycle,              \* wake-ups so far
    resets,             \* power-on resets so far
    inserted,           \* History harness: every value inserted so far
    view,               \* History harness: Option, the last data_for_display() result
    deltas              \* CalibrationData harness: every delta applied so far

vars == <<HISTORY, CALIBRATION_DATA, temperature, co2_sensor, pc, panic, trace,
          co2_result, elapsed, waited, init_samples, divisors, at_calls, drawn,
          timer, histAtWake, calAtWake, cycle, resets, inserted, view, deltas>>

\* ------------------------------------------------------------- History
\* Capacity N of a History: the number of backing slots.
N(h) == Cardinality(DOMAIN h.data)

History_new(n) == [data |-> [i \in 0..(n - 1) |-> 0], cursor |-> 0, count |-> 0]

add_measurement_keeps_oldest(h, v) ==
    IF h.count < N(h)
    THEN [data |-> [h.data EXCEPT ![h.cursor] = v],
          cursor |-> (h.cursor + 1) % N(h),
          count |-> h.count + 1]
    ELSE [h EXCEPT !.data = [h.data EXCEPT ![(h.cursor + N(h) - 1) % N(h)] = v]]

add_measurement(h, v) ==
    [data |-> [h.data EXCEPT ![h.cursor] = v],
     cursor |-> (h.cursor + 1) % N(h),
     count |-> IF h.count < N(h) THEN h.count + 1 ELSE h.count]

len(h) == h.count

\* Logical index i (oldest first) to physical slot, through the write cursor.
at(h, i) == h.data[(h.cursor + N(h) - h.count + i) % N(h)]

RECURSIVE max_upto(_, _)
max_upto(h, k) ==
    IF k = 0 THEN at(h, 0)
    ELSE LET m == max_upto(h, k - 1) IN IF at(h, k) > m THEN at(h, k) ELSE m

max_value_skips_newest(h) ==
    IF h.count = 0 THEN None
    ELSE Some(max_upto(h, IF h.count > 1 THEN h.count - 2 ELSE 0))

max_value(h) == IF h.count = 0 THEN None ELSE Some(max_upto(h, h.count - 1))

\* Physical slots from..to of the backing storage, as a sequence.
slots(h, from, to) == [k \in 1..(to - from + 1) |-> h.data[from + k - 1]]

data_for_display_physical_order(h) ==
    << [i \in 1..h.count |-> i - 1], slots(h, 0, h.count - 1) >>

\* (indices, values): the values are the slots from the oldest one to the end
\* of the storage, followed by the slots before the write cursor.
data_for_display(h) ==
    << [i \in 1..h.count |-> i - 1],
       IF h.count < N(h)
       THEN slots(h, 0, h.count - 1)
       ELSE slots(h, h.cursor, N(h) - 1) \o slots(h, 0, h.cursor - 1) >>

\* ------------------------------------------------------ CalibrationData
CalibrationData_new == [time_ms |-> 0, aux |-> 0]

update_time_ms_overwrites(c, delta) == [c EXCEPT !.time_ms = delta]

update_time_ms(c, delta) == [c EXCEPT !.time_ms = c.time_ms + delta]

\* ------------------------------------------------------- SunriseSensor
\* Protocol states: Off -> Enabled -> Initialized -> MeasurementStarted ->
\* ResultReady -> Off.  A failed call leaves the state where it was.
sensor_new == "Enabled"

sensor_init(state, ok) == IF ok THEN "Initialized" ELSE state

sensor_start_measurement(state, ok) == IF ok THEN "MeasurementStarted" ELSE state

sensor_get_co2(state) == "ResultReady"

\* get_co2 writes its calibration bookkeeping on both outcomes.
sensor_get_co2_calibration(c, aux) == [c EXCEPT !.aux = aux]

sensor_turn_off(state) == "Off"

\* ------------------------------------------------------------- Display
graph_indices_inclusive(h) == 0..(len(h) - 1)

\* The loop of draw_graph: for i in 0..(history_length - 1).
graph_indices(h) == 0..(len(h) - 2)

\* Every divisor the loop body of draw_graph divides by.
graph_divisors(h) ==
    IF graph_indices(h) = {} THEN {} ELSE {len(h) - 1} \cup max_value(h)

graph_at_calls(h) == UNION {{i, i + 1} : i \in graph_indices(h)}

\* ------------------------------------------------------------ main
Init ==
    /\ HISTORY \in {History_new(n) : n \in 1..MaxCapacity}
    /\ CALIBRATION_DATA = CalibrationData_new
    /\ temperature = 0
    /\ co2_sensor = "Off"
    /\ pc = "boot"
    /\ panic = "none"
    /\ trace = <<>>
    /\ co2_result = None
    /\ elapsed = None
    /\ waited = 0
    /\ init_samples = None
    /\ divisors = {}
    /\ at_calls = {}
    /\ drawn = None
    /\ timer = None
    /\ histAtWake = HISTORY
    /\ calAtWake = CALIBRATION_DATA
    /\ cycle = 0
    /\ resets = 0
    /\ inserted = <<>>
    /\ view = None
    /\ deltas = <<>>

Panic(cause) ==
    /\ pc' = "panicked"
    /\ panic' = cause

\* main.rs 43-67: boot, temperature = 0.0, SunriseSensor::new asserts the enable pin.
SunriseSensor_new ==
    /\ pc = "boot"
    /\ temperature' = 0
    /\ co2_sensor' = sensor_new
    /\ trace' = Append(trace, "new")
    /\ pc' = "init"
    /\ UNCHANGED <<HISTORY, CALIBRATION_DATA, panic, co2_result, elapsed, waited,
                   init_samples, divisors, at_calls, drawn, timer, histAtWake,
                   calAtWake, cycle, resets, inserted, view, deltas>>

init_clears_calibration_on_failure(ok) ==
    /\ pc = "init"
    /\ trace' = Append(trace, "init")
    /\ init_samples' = Some(number_of_samples)
    /\ co2_sensor' = sensor_init(co2_sensor, ok)
    /\ IF ok
       THEN /\ pc' = "start_measurement"
            /\ UNCHANGED <<panic, CALIBRATION_DATA>>
       ELSE /\ Panic("init")
            /\ CALIBRATION_DATA' = CalibrationData_new
    /\ UNCHANGED <<HISTORY, temperature, co2_result, elapsed,
                   waited, divisors, at_calls, drawn, timer, histAtWake,
                   calAtWake, cycle, resets, inserted, view, deltas>>

\* main.rs 68-70: co2_sensor.init(number_of_samples).expect(..)
init(ok) ==
    /\ pc = "init"
    /\ trace' = Append(trace, "init")
    /\ init_samples' = Some(number_of_samples)
    /\ co2_sensor' = sensor_init(co2_sensor, ok)
    /\ IF ok
       THEN /\ pc' = "start_measurement"
            /\ UNCHANGED panic
       ELSE Panic("init")
    /\ UNCHANGED <<HISTORY, CALIBRATION_DATA, temperature, co2_result, elapsed,
                   waited, divisors, at_calls, drawn, timer, histAtWake,
                   calAtWake, cycle, resets, inserted, view, deltas>>

\* main.rs 72-76: co2_sensor.start_measurement(Some(&CALIBRATION_DATA)).expect(..)
start_measurement(ok) ==
    /\ pc = "start_measurement"
    /\ trace' = Append(trace, "start_measurement")
    /\ co2_sensor' = sensor_start_measurement(co2_sensor, ok)
    /\ IF ok
       THEN /\ pc' = "sleep_light"
            /\ UNCHANGED panic
       ELSE Panic("start_measurement")
    /\ UNCHANGED <<HISTORY, CALIBRATION_DATA, temperature, co2_result, elapsed,
                   waited, init_samples, divisors, at_calls, drawn, timer,
                   histAtWake, calAtWake, cycle, resets, inserted, view, deltas>>

sleep_light_one_sample ==
    /\ pc = "sleep_light"
    /\ waited' = waited + milliseconds_per_sample
    /\ trace' = Append(trace, "sleep_light")
    /\ pc' = "get_co2"
    /\ UNCHANGED <<HISTORY, CALIBRATION_DATA, temperature, co2_sensor, panic,
                   co2_result, elapsed, init_samples, divisors, at_calls, drawn,
                   timer, histAtWake, calAtWake, cycle, resets, inserted, view,
                   deltas>>

\* main.rs 79-83: light sleep for number_of_samples * milliseconds_per_sample ms.
sleep_light ==
    /\ pc = "sleep_light"
    /\ waited' = waited + number_of_samples * milliseconds_per_sample
    /\ trace' = Append(trace, "sleep_light")
    /\ pc' = "get_co2"
    /\ UNCHANGED <<HISTORY, CALIBRATION_DATA, temperature, co2_sensor, panic,
                   co2_result, elapsed, init_samples, divisors, at_calls, drawn,
                   timer, histAtWake, calAtWake, cycle, resets, inserted, view, deltas>>

\* The results get_co2 can return: Ok(ppm) or Err.
Co2Results == [ok : {TRUE}, ppm : Ppm] \cup {[ok |-> FALSE, ppm |-> 0]}

get_co2_sentinel_always(res, aux) ==
    /\ pc = "get_co2"
    /\ co2_result' = Some(res)
    /\ co2_sensor' = sensor_get_co2(co2_sensor)
    /\ CALIBRATION_DATA' = sensor_get_co2_calibration(CALIBRATION_DATA, aux)
    /\ HISTORY' = add_measurement(HISTORY, 0)
    /\ trace' = trace \o <<"get_co2", "add_measurement">>
    /\ pc' = "update_time"
    /\ UNCHANGED <<temperature, panic, elapsed, waited, init_samples, divisors,
                   at_calls, drawn, timer, histAtWake, calAtWake, cycle, resets,
                   inserted, view, deltas>>

get_co2_err_appends_nothing(res, aux) ==
    /\ pc = "get_co2"
    /\ co2_result' = Some(res)
    /\ co2_sensor' = sensor_get_co2(co2_sensor)
    /\ CALIBRATION_DATA' = sensor_get_co2_calibration(CALIBRATION_DATA, aux)
    /\ HISTORY' = IF res.ok THEN add_measurement(HISTORY, res.ppm) ELSE HISTORY
    /\ trace' = trace \o (IF res.ok THEN <<"get_co2", "add_measurement">>
                                     ELSE <<"get_co2">>)
    /\ pc' = "update_time"
    /\ UNCHANGED <<temperature, panic, elapsed, waited, init_samples, divisors,
                   at_calls, drawn, timer, histAtWake, calAtWake, cycle, resets,
                   inserted, view, deltas>>

\* main.rs 85-95: match co2_sensor.get_co2(&mut CALIBRATION_DATA)
get_co2(res, aux) ==
    /\ pc = "get_co2"
    /\ co2_result' = Some(res)
    /\ co2_sensor' = sensor_get_co2(co2_sensor)
    /\ CALIBRATION_DATA' = sensor_get_co2_calibration(CALIBRATION_DATA, aux)
    /\ HISTORY' = IF res.ok THEN add_measurement(HISTORY, res.ppm)
                            ELSE add_measurement(HISTORY, 0)
    /\ trace' = trace \o <<"get_co2", "add_measurement">>
    /\ pc' = "update_time"
    /\ UNCHANGED <<temperature, panic, elapsed, waited, init_samples, divisors,
                   at_calls, drawn, timer, histAtWake, calAtWake, cycle, resets,
                   inserted, view, deltas>>

update_time_overwrites(delta) ==
    /\ pc = "update_time"
    /\ CALIBRATION_DATA' = [CALIBRATION_DATA EXCEPT !.time_ms = delta]
    /\ elapsed' = Some(delta)
    /\ trace' = Append(trace, "update_time_ms")
    /\ pc' = "get_temperature"
    /\ UNCHANGED <<HISTORY, temperature, co2_sensor, panic, co2_result, waited,
                   init_samples, divisors, at_calls, drawn, timer, histAtWake,
                   calAtWake, cycle, resets, inserted, view, deltas>>

update_time_skipped(delta) ==
    /\ pc = "update_time"
    /\ pc' = "get_temperature"
    /\ UNCHANGED <<HISTORY, CALIBRATION_DATA, temperature, co2_sensor, panic,
                   trace, co2_result, elapsed, waited, init_samples, divisors,
                   at_calls, drawn, timer, histAtWake, calAtWake, cycle, resets,
                   inserted, view, deltas>>

update_time_only_on_success(delta) ==
    /\ pc = "update_time"
    /\ CALIBRATION_DATA' = IF \A r \in co2_result : r.ok
                           THEN update_time_ms(CALIBRATION_DATA, delta)
                           ELSE CALIBRATION_DATA
    /\ elapsed' = Some(delta)
    /\ trace' = Append(trace, "update_time_ms")
    /\ pc' = "get_temperature"
    /\ UNCHANGED <<HISTORY, temperature, co2_sensor, panic, co2_result, waited,
                   init_samples, divisors, at_calls, drawn, timer, histAtWake,
                   calAtWake, cycle, resets, inserted, view, deltas>>

\* main.rs 96-97: CALIBRATION_DATA.update_time_ms(rtc.time_since_boot().ticks() / 1000)
update_time(delta) ==
    /\ pc = "update_time"
    /\ CALIBRATION_DATA' = update_time_ms(CALIBRATION_DATA, delta)
    /\ elapsed' = Some(delta)
    /\ trace' = Append(trace, "update_time_ms")
    /\ pc' = "get_temperature"
    /\ UNCHANGED <<HISTORY, temperature, co2_sensor, panic, co2_result, waited,
                   init_samples, divisors, at_calls, drawn, timer, histAtWake,
                   calAtWake, cycle, resets, inserted, view, deltas>>

\* main.rs 100: temperature = co2_sensor.get_temperature().unwrap()
get_temperature(t) ==
    /\ pc = "get_temperature"
    /\ trace' = Append(trace, "get_temperature")
    /\ IF t # None
       THEN /\ temperature' = CHOOSE x \in t : TRUE
            /\ pc' = "turn_off"
            /\ UNCHANGED panic
       ELSE /\ Panic("get_temperature")
            /\ UNCHANGED temperature
    /\ UNCHANGED <<HISTORY, CALIBRATION_DATA, co2_sensor, co2_result, elapsed,
                   waited, init_samples, divisors, at_calls, drawn, timer,
                   histAtWake, calAtWake, cycle, resets, inserted, view, deltas>>

turn_off_skipped ==
    /\ pc = "turn_off"
    /\ trace' = trace
    /\ pc' = "draw"
    /\ UNCHANGED <<HISTORY, CALIBRATION_DATA, temperature, co2_sensor, panic,
                   co2_result, elapsed, waited, init_samples, divisors, at_calls,
                   drawn, timer, histAtWake, calAtWake, cycle, resets, inserted, view, deltas>>

\* main.rs 102: co2_sensor.turn_off()
turn_off ==
    /\ pc = "turn_off"
    /\ co2_sensor' = sensor_turn_off(co2_sensor)
    /\ trace' = Append(trace, "turn_off")
    /\ pc' = "draw"
    /\ UNCHANGED <<HISTORY, CALIBRATION_DATA, temperature, panic, co2_result,
                   elapsed, waited, init_samples, divisors, at_calls, drawn,
                   timer, histAtWake, calAtWake, cycle, resets, inserted, view, deltas>>

draw_consumes_history(spi) ==
    /\ pc = "draw"
    /\ trace' = Append(trace, "draw")
    /\ HISTORY' = History_new(N(HISTORY))
    /\ IF spi = "ok"
       THEN pc' = "arm_timer" /\ UNCHANGED panic
       ELSE Panic("draw")
    /\ UNCHANGED <<CALIBRATION_DATA, temperature, co2_sensor, co2_result,
                   elapsed, waited, init_samples, divisors, at_calls, drawn,
                   timer, histAtWake, calAtWake, cycle, resets, inserted, view,
                   deltas>>

\* main.rs 107-131 and display.rs 68-92, 160-179:
\* display.draw(&HISTORY, temperature, battery_voltage).expect(..)
draw(spi) ==
    /\ pc = "draw"
    /\ trace' = Append(trace, "draw")
    /\ IF spi = "set_lut_err"
       THEN /\ Panic("draw")
            /\ UNCHANGED <<drawn, divisors, at_calls>>
       ELSE IF len(HISTORY) > 0
       THEN /\ drawn' = Some(data_for_display(HISTORY)[2][len(HISTORY)])
            /\ divisors' = graph_divisors(HISTORY)
            /\ IF 0 \in graph_divisors(HISTORY)
               THEN /\ Panic("divide_by_zero")
                    /\ at_calls' = {0}
               ELSE /\ at_calls' = graph_at_calls(HISTORY)
                    /\ IF spi = "ok"
                       THEN pc' = "arm_timer" /\ UNCHANGED panic
                       ELSE Panic("draw")
       ELSE /\ UNCHANGED <<drawn, divisors, at_calls>>
            /\ IF spi = "ok"
               THEN pc' = "arm_timer" /\ UNCHANGED panic
               ELSE Panic("draw")
    /\ UNCHANGED <<HISTORY, CALIBRATION_DATA, temperature, co2_sensor, co2_result,
                   elapsed, waited, init_samples, timer, histAtWake, calAtWake,
                   cycle, resets, inserted, view, deltas>>

\* main.rs 135-141: power the bus off, build the deep-sleep wake timer.
arm_timer ==
    /\ pc = "arm_timer"
    /\ timer' = Some(deep_sleep_secs)
    /\ trace' = Append(trace, "arm_timer")
    /\ pc' = "deep_sleep"
    /\ UNCHANGED <<HISTORY, CALIBRATION_DATA, temperature, co2_sensor, panic,
                   co2_result, elapsed, waited, init_samples, divisors, at_calls,
                   drawn, histAtWake, calAtWake, cycle, resets, inserted, view, deltas>>

\* main.rs 143-145: rtc.sleep(&cfg, &[&timer])
deep_sleep ==
    /\ pc = "deep_sleep"
    /\ trace' = Append(trace, "deep_sleep")
    /\ pc' = "asleep"
    /\ UNCHANGED <<HISTORY, CALIBRATION_DATA, temperature, co2_sensor, panic,
                   co2_result, elapsed, waited, init_samples, divisors, at_calls,
                   drawn, timer, histAtWake, calAtWake, cycle, resets, inserted, view, deltas>>

NewCycle ==
    /\ cycle < MaxCycles
    /\ cycle' = cycle + 1
    /\ pc' = "boot"
    /\ panic' = "none"
    /\ trace' = <<>>
    /\ co2_result' = None
    /\ elapsed' = None
    /\ waited' = 0
    /\ init_samples' = None
    /\ divisors' = {}
    /\ at_calls' = {}
    /\ drawn' = None
    /\ timer' = None
    /\ histAtWake' = HISTORY'
    /\ calAtWake' = CALIBRATION_DATA'

timer_wake_reinitialises ==
    /\ pc = "asleep"
    /\ timer # None
    /\ HISTORY' = History_new(N(HISTORY))
    /\ CALIBRATION_DATA' = CalibrationData_new
    /\ NewCycle
    /\ UNCHANGED <<temperature, co2_sensor, resets, inserted, view, deltas>>

\* The timer wakes the chip from deep sleep: main starts again, the statics
\* in RTC fast memory keep their contents (main.rs 35-39).
timer_wake ==
    /\ pc = "asleep"
    /\ timer # None
    /\ UNCHANGED <<HISTORY, CALIBRATION_DATA>>
    /\ NewCycle
    /\ UNCHANGED <<temperature, co2_sensor, resets, inserted, view, deltas>>

\* A hard power-on reset: the statics are initialised again (main.rs 36, 39).
power_on_reset ==
    /\ resets < MaxResets
    /\ resets' = resets + 1
    /\ HISTORY' = History_new(N(HISTORY))
    /\ CALIBRATION_DATA' = CalibrationData_new
    /\ temperature' = 0
    /\ co2_sensor' = "Off"
    /\ NewCycle
    /\ UNCHANGED <<inserted, view, deltas>>

Next ==
    \/ SunriseSensor_new
    \/ \E ok \in BOOLEAN : init(ok)
    \/ \E ok \in BOOLEAN : start_measurement(ok)
    \/ sleep_light
    \/ \E res \in Co2Results, aux \in AuxStates : get_co2(res, aux)
    \/ \E delta \in ElapsedMs : update_time(delta)
    \/ \E t \in {None} \cup {Some(c) : c \in Celsius} : get_temperature(t)
    \/ turn_off
    \/ \E spi \in SpiOutcomes : draw(spi)
    \/ arm_timer
    \/ deep_sleep
    \/ timer_wake
    \/ power_on_reset

Spec == Init /\ [][Next]_vars

\* main runs without preemption: a step of main that can be taken is taken.
\* The panic handler halts; wake-ups and resets come from outside.
MainStep ==
    \/ SunriseSensor_new
    \/ \E ok \in BOOLEAN : init(ok)
    \/ \E ok \in BOOLEAN : start_measurement(ok)
    \/ sleep_light
    \/ \E res \in Co2Results, aux \in AuxStates : get_co2(res, aux)
    \/ \E delta \in ElapsedMs : update_time(delta)
    \/ \E t \in {None} \cup {Some(c) : c \in Celsius} : get_temperature(t)
    \/ turn_off
    \/ \E spi \in SpiOutcomes : draw(spi)
    \/ arm_timer
    \/ deep_sleep

SpecFair == Spec /\ WF_vars(MainStep)

\* ------------------------------------------------------ History harness
\* Any sequence of add_measurement calls on a History that starts empty.
HistoryAdd(v) ==
    /\ Len(inserted) < N(HISTORY) + ExtraInserts
    /\ HISTORY' = add_measurement(HISTORY, v)
    /\ inserted' = Append(inserted, v)
    /\ view' = None
    /\ UNCHANGED <<CALIBRATION_DATA, temperature, co2_sensor, pc, panic, trace,
                   co2_result, elapsed, waited, init_samples, divisors, at_calls,
                   drawn, timer, histAtWake, calAtWake, cycle, resets, deltas>>

\* A caller takes the oldest-to-newest view of the History (display.rs 81).
HistoryView ==
    /\ view = None
    /\ view' = Some(data_for_display(HISTORY))
    /\ UNCHANGED <<HISTORY, CALIBRATION_DATA, temperature, co2_sensor, pc, panic,
                   trace, co2_result, elapsed, waited, init_samples, divisors,
                   at_calls, drawn, timer, histAtWake, calAtWake, cycle, resets,
                   inserted, deltas>>

NextHistory ==
    \/ \E v \in Values : HistoryAdd(v)
    \/ HistoryView

SpecHistory == Init /\ [][NextHistory]_vars

\* ----------------------------------------------- CalibrationData harness
\* Any sequence of update_time_ms calls on a CalibrationData that starts new.
CalibrationUpdate(d) ==
    /\ Len(deltas) < MaxUpdates
    /\ CALIBRATION_DATA' = update_time_ms(CALIBRATION_DATA, d)
    /\ deltas' = Append(deltas, d)
    /\ UNCHANGED <<HISTORY, temperature, co2_sensor, pc, panic, trace,
                   co2_result, elapsed, waited, init_samples, divisors, at_calls,
                   drawn, timer, histAtWake, calAtWake, cycle, resets, inserted,
                   view>>

NextCalibration == \E d \in Deltas : CalibrationUpdate(d)

SpecCalibration == Init /\ [][NextCalibration]_vars

\* ------------------------------------------------------------ helpers
RECURSIVE SumSeq(_)
SumSeq(q) == IF q = <<>> THEN 0 ELSE q[1] + SumSeq(Tail(q))

Has(e) == \E k \in 1..Len(trace) : trace[k] = e

Count(e) == Cardinality({k \in 1..Len(trace) : trace[k] = e})

\* Position of the first call e in this cycle's trace, 0 when it was not made.
Pos(e) == IF Has(e) THEN CHOOSE k \in 1..Len(trace) :
                            trace[k] = e /\ \A j \in 1..(k - 1) : trace[j] # e
          ELSE 0

Before(a, b) == Has(a) /\ Has(b) /\ Pos(a) < Pos(b)

IsPrefix(s, t) == Len(s) <= Len(t) /\ \A k \in 1..Len(s) : s[k] = t[k]

Min2(a, b) == IF a < b THEN a ELSE b

\* The values a History must retain after the insertions recorded in inserted.
Retained == SubSeq(inserted,
                   Len(inserted) - Min2(Len(inserted), N(HISTORY)) + 1,
                   Len(inserted))

\* The value the match of main.rs 86-94 appends for a get_co2 result.
Appended(r) == IF r.ok THEN r.ppm ELSE 0

DriverOrder == <<"new", "init", "start_measurement", "get_co2",
                 "get_temperature", "turn_off">>

DriverCalls == SelectSeq(trace, LAMBDA e : e \in {DriverOrder[k] : k \in 1..Len(DriverOrder)})

\* The protocol state the driver is in after the calls made so far.
ExpectedSensorState ==
    LET k == Len(DriverCalls) IN
    CASE k = 0 -> "Off"
      [] k = 1 -> "Enabled"
      [] k = 2 -> IF panic = "init" THEN "Enabled" ELSE "Initialized"
      [] k = 3 -> IF panic = "start_measurement" THEN "Initialized"
                  ELSE "MeasurementStarted"
      [] k \in {4, 5} -> "ResultReady"
      [] OTHER -> "Off"

\* ------------------------------------------------------------- claims

\* C1: for a History of capacity N and m add_measurement calls from the empty
\* History, len() <= N; if m <= N then len() = m and at(i) is the i-th inserted
\* value (counting from 0); if m > N then len() = N, at(0) is inserted value
\* number m-N (counting from 0, the oldest retained), at(N-1) is the newest,
\* and every at(i) is the value inserted N-i calls ago, so each insertion at
\* full capacity evicted exactly the oldest entry; 7 inserts into capacity 5
\* leave at(0) equal to the 3rd inserted value.
C1_RingBufferOrder ==
    LET m == Len(inserted)
        n == N(HISTORY)
    IN  /\ len(HISTORY) <= n
        /\ m <= n => /\ len(HISTORY) = m
                     /\ \A i \in 0..(m - 1) : at(HISTORY, i) = inserted[i + 1]
        /\ m > n => /\ len(HISTORY) = n
                    /\ at(HISTORY, 0) = inserted[m - n + 1]
                    /\ at(HISTORY, n - 1) = inserted[m]
                    /\ \A i \in 0..(n - 1) : at(HISTORY, i) = inserted[m - n + 1 + i]
        /\ (n = 5 /\ m = 7) => at(HISTORY, 0) = inserted[3]

C1_Witness ==
    /\ N(HISTORY) = 5
    /\ inserted = <<400, 420, 410, 0, 450, 420, 400>>
    /\ at(HISTORY, 0) = 410
    /\ at(HISTORY, 4) = 400
    /\ len(HISTORY) = 5

\* C2: max_value() is the maximum over exactly the retained readings, and is
\* "no value" iff len() = 0; inserting 400, 420, 410, 0, 450 into a capacity-5
\* History gives len() = 5, at(0) = 400, at(4) = 450, max_value() = 450.
C2_MaxOverRetained ==
    /\ (max_value(HISTORY) = None) <=> (len(HISTORY) = 0)
    /\ \A x \in max_value(HISTORY) :
          /\ \E k \in 1..Len(Retained) : Retained[k] = x
          /\ \A k \in 1..Len(Retained) : Retained[k] <= x
    /\ (N(HISTORY) = 5 /\ inserted = <<400, 420, 410, 0, 450>>)
          => /\ len(HISTORY) = 5
             /\ at(HISTORY, 0) = 400
             /\ at(HISTORY, 4) = 450
             /\ max_value(HISTORY) = Some(450)

\* An evicted maximum no longer counts: 450 was inserted and evicted.
C2_Witness ==
    /\ N(HISTORY) = 2
    /\ inserted = <<450, 400, 410>>
    /\ max_value(HISTORY) = Some(410)

\* C3: no sensor-side failure (init, start_measurement, get_co2, an absent
\* get_temperature result) drives the wake cycle into a panic.
C3_NoSensorFailureIsFatal ==
    panic \notin {"init", "start_measurement", "get_co2", "get_temperature"}

C5_ExactlyOneAppendPerCycle ==
    pc \in {"asleep", "panicked"} =>
        /\ Count("add_measurement") = 1
        /\ len(HISTORY) = Min2(len(histAtWake) + 1, N(HISTORY))

\* C6: get_co2 is attempted at most once in a cycle and exactly once in every
\* cycle that got past it; when it failed the sentinel 0 was appended in that
\* cycle, when it succeeded the returned ppm was appended, and nothing else.
C6_SentinelOnFailure ==
    /\ Count("get_co2") <= 1
    /\ (co2_result # None) <=> (Count("get_co2") = 1)
    /\ pc \in {"update_time", "get_temperature", "turn_off", "draw", "arm_timer",
               "deep_sleep", "asleep"} => co2_result # None
    /\ \A r \in co2_result :
          /\ Count("add_measurement") = 1
          /\ HISTORY = add_measurement(histAtWake, Appended(r))
          /\ at(HISTORY, len(HISTORY) - 1) = Appended(r)
          /\ ~r.ok => at(HISTORY, len(HISTORY) - 1) = 0

C6_Witness ==
    /\ pc = "asleep"
    /\ co2_result = Some([ok |-> FALSE, ppm |-> 0])
    /\ len(histAtWake) = 1
    /\ at(histAtWake, 0) = 450
    /\ len(HISTORY) = 2
    /\ at(HISTORY, 1) = 0

\* C7: in every cycle in which get_co2 was invoked, once the step after the
\* match has run the accumulated time is the time at wake-up plus the cycle's
\* delta, whether get_co2 returned Ok or Err.
C7_TimeUpdatedOnBothPaths ==
    \A r \in co2_result :
        pc # "update_time" =>
            /\ elapsed # None
            /\ Count("update_time_ms") = 1
            /\ \A d \in elapsed : CALIBRATION_DATA.time_ms = calAtWake.time_ms + d

C7_Witness ==
    /\ co2_result = Some([ok |-> FALSE, ppm |-> 0])
    /\ elapsed = Some(2)
    /\ calAtWake.time_ms = 1
    /\ CALIBRATION_DATA.time_ms = 3
    /\ pc = "get_temperature"

\* C8: draw_graph performs no division whose divisor is zero.
C8_NoDivisionByZero ==
    /\ 0 \notin divisors
    /\ panic # "divide_by_zero"

\* C9: the driver calls of a cycle are a prefix of new, init,
\* start_measurement, get_co2, get_temperature, turn_off, each made in the
\* protocol state the state machine requires; nothing is called after
\* turn_off; the sensor is Off before the display is drawn and before deep
\* sleep.
C9_DriverStateMachine ==
    /\ IsPrefix(DriverCalls, DriverOrder)
    /\ co2_sensor = ExpectedSensorState
    /\ Has("draw") => Before("turn_off", "draw")
    /\ Has("deep_sleep") => Before("turn_off", "deep_sleep")
    /\ pc \in {"draw", "arm_timer", "deep_sleep", "asleep"} => co2_sensor = "Off"
    /\ Has("get_temperature") /\ Has("turn_off") => Before("get_temperature", "turn_off")

C9_Witness ==
    /\ pc = "asleep"
    /\ DriverCalls = DriverOrder
    /\ co2_sensor = "Off"
    /\ Before("turn_off", "draw")

\* C10: the draw of a cycle comes after that cycle's add_measurement: at draw
\* time History is non-empty, its most recent entry is the value appended in
\* the same cycle, and that entry is the latest CO2 value draw shows.
C10_DrawReadsUpdatedHistory ==
    /\ (pc = "draw" \/ Has("draw")) =>
          /\ Has("add_measurement")
          /\ co2_result # None
          /\ len(HISTORY) > 0
          /\ \A r \in co2_result : at(HISTORY, len(HISTORY) - 1) = Appended(r)
    /\ Has("draw") => Before("add_measurement", "draw")
    /\ \A v \in drawn : \A r \in co2_result : v = Appended(r)
    /\ pc \in {"arm_timer", "deep_sleep", "asleep"} => drawn # None

C10_Witness ==
    /\ Has("draw")
    /\ pc = "arm_timer"
    /\ co2_result = Some([ok |-> TRUE, ppm |-> 450])
    /\ drawn = Some(450)
    /\ len(histAtWake) = 1
    /\ at(histAtWake, 0) = 400

\* C11: data_for_display() is an oldest-to-newest view: its value sequence has
\* len() entries equal to at(0), ..., at(len()-1) in that order (the retained
\* insertions in insertion order), its index sequence is 0..len()-1, its last
\* value is the most recently added reading, and taking the view leaves the
\* History as it was.
C11_ViewIsOldestToNewest ==
    /\ LET d == data_for_display(HISTORY) IN
          /\ Len(d[2]) = len(HISTORY)
          /\ Len(d[1]) = len(HISTORY)
          /\ \A i \in 0..(len(HISTORY) - 1) : d[2][i + 1] = at(HISTORY, i) /\ d[1][i + 1] = i
          /\ d[2] = Retained
          /\ len(HISTORY) > 0 => d[2][Len(d[2])] = inserted[Len(inserted)]
    /\ \A w \in view : w = data_for_display(HISTORY) /\ w[2] = Retained

\* A wrapped History: the view starts at the oldest retained value.
C11_Witness ==
    /\ N(HISTORY) = 3
    /\ inserted = <<400, 420, 410, 0, 450>>
    /\ view = Some(<< <<0, 1, 2>>, <<410, 0, 450>> >>)
    /\ HISTORY.cursor = 2

\* C12: as long as no power-on reset occurs, no step of a wake cycle and no
\* deep-sleep/wake transition lowers the accumulated operating time.
C12_TimeNonDecreasing ==
    [][resets' = resets =>
          CALIBRATION_DATA'.time_ms >= CALIBRATION_DATA.time_ms]_vars

\* A second cycle, with a failed reading, has raised the time again.
C12_Witness ==
    /\ resets = 0
    /\ cycle = 1
    /\ co2_result = Some([ok |-> FALSE, ppm |-> 0])
    /\ calAtWake.time_ms = 2
    /\ CALIBRATION_DATA.time_ms = 3

\* C13: a timer wake re-initialises nothing: History and CalibrationData at
\* the start of the next wake cycle are what they were when the previous
\* cycle entered deep sleep.
C13_RetainedAcrossSleep ==
    [][(pc = "asleep" /\ pc' = "boot" /\ resets' = resets) =>
          /\ HISTORY' = HISTORY
          /\ CALIBRATION_DATA' = CALIBRATION_DATA]_vars

\* The start of a cycle after a timer wake, with readings and time retained.
C13_Witness ==
    /\ pc = "boot"
    /\ resets = 0
    /\ cycle = 2
    /\ len(HISTORY) = 2
    /\ at(HISTORY, 0) = 450
    /\ CALIBRATION_DATA.time_ms = 4
    /\ CALIBRATION_DATA.aux = 1

\* C14: init never touches CalibrationData: the init step leaves it as it
\* was, and after a failed init (the InitError that stops main) it is still
\* what it was at wake-up.
C14_InitLeavesCalibration ==
    /\ [](Has("init") /\ ~Has("start_measurement") =>
             CALIBRATION_DATA = calAtWake)
    /\ [](panic = "init" => CALIBRATION_DATA = calAtWake)
    /\ [][trace' = Append(trace, "init") =>
             CALIBRATION_DATA' = CALIBRATION_DATA]_vars

C14_Witness ==
    /\ panic = "init"
    /\ calAtWake.time_ms = 3
    /\ calAtWake.aux = 1
    /\ CALIBRATION_DATA = calAtWake

\* C15: update_time_ms is additive and order-independent: from any accumulated
\* value, d1 then d2 gives the same CalibrationData as d2 then d1, with the
\* accumulated time raised by d1 + d2; after any sequence of calls the
\* accumulated time is the sum of the deltas.
C15_UpdateTimeAdditive ==
    /\ CALIBRATION_DATA.time_ms = SumSeq(deltas)
    /\ \A d1 \in Deltas, d2 \in Deltas :
          LET a == update_time_ms(update_time_ms(CALIBRATION_DATA, d1), d2)
              b == update_time_ms(update_time_ms(CALIBRATION_DATA, d2), d1)
          IN  /\ a = b
              /\ a.time_ms = CALIBRATION_DATA.time_ms + d1 + d2

C15_Witness ==
    /\ deltas = <<1, 7, 2>>
    /\ CALIBRATION_DATA.time_ms = 10

\* C16: draw never mutates the retained state: History and CalibrationData
\* are the same before and after the draw step, whether it succeeds, returns
\* an error or stops in draw_graph.
C16_DrawLeavesRetainedState ==
    [][trace' = Append(trace, "draw") =>
          /\ HISTORY' = HISTORY
          /\ CALIBRATION_DATA' = CALIBRATION_DATA]_vars

\* A draw that returned an error, with two readings still in the History.
C16_Witness ==
    /\ Has("draw")
    /\ panic = "draw"
    /\ len(HISTORY) = 2
    /\ at(HISTORY, 1) = 450
    /\ CALIBRATION_DATA.time_ms = 3

\* C17: every wake cycle eventually enters deep sleep, also when the sensor
\* fails at init, start_measurement, get_co2 or get_temperature, and the wake
\* timer is armed before the deep-sleep call.
C17_EveryCycleSleeps ==
    /\ [](pc = "boot" => <>(pc = "asleep"))
    /\ [](Has("deep_sleep") => Before("arm_timer", "deep_sleep") /\ timer # None)

\* C18: get_co2 is invoked only after start_measurement returned successfully
\* and a light sleep of (the sample count passed to init) x (per-sample
\* interval) was performed in between; start_measurement does not modify
\* CalibrationData.
C18_WaitBeforeRead ==
    /\ [](Has("get_co2") =>
             /\ Before("init", "start_measurement")
             /\ Before("start_measurement", "sleep_light")
             /\ Before("sleep_light", "get_co2")
             /\ Count("sleep_light") = 1
             /\ init_samples # None
             /\ \A n \in init_samples : waited = n * milliseconds_per_sample)
    /\ [](pc = "get_co2" =>
             /\ co2_sensor = "MeasurementStarted"
             /\ \A n \in init_samples : waited = n * milliseconds_per_sample)
    /\ [](panic = "start_measurement" => ~Has("get_co2"))
    /\ [][trace' = Append(trace, "start_measurement") =>
             CALIBRATION_DATA' = CALIBRATION_DATA]_vars

C18_Witness ==
    /\ Has("get_co2")
    /\ init_samples = Some(2)
    /\ waited = 600
    /\ pc = "update_time"

\* C19: draw_graph calls at() only within its precondition: every index it
\* passes is in 0..len()-1, it is reached only with len() > 0, and for
\* len() = 1 it makes no at() call (and draws no segment).
C19_AtCallsWithinBounds ==
    /\ \A i \in at_calls : 0 <= i /\ i < len(HISTORY)
    /\ Has("draw") => len(HISTORY) > 0
    /\ (Has("draw") /\ len(HISTORY) = 1) => at_calls = {} /\ divisors = {}
    /\ (Has("draw") /\ panic \notin {"draw", "divide_by_zero"}) =>
          at_calls = IF len(HISTORY) > 1 THEN 0..(len(HISTORY) - 1) ELSE {}

C19_Witness ==
    /\ Has("draw")
    /\ len(HISTORY) = 3
    /\ at_calls = {0, 1, 2}
    /\ pc = "arm_timer"

====
